---- MODULE Spec2Model ----
(***************************************************************************)
(* The sac interpreter (src/src/interpreter.rs, src/src/main.rs): a source *)
(* scanner (Lexer), an IR builder with run-length folding (load_program),  *)
(* a loop resolver (precompute_jumps) and the execution loop (interpret).  *)
(*                                                                         *)
(* Characters are one-character strings, texts are sequences of them.      *)
(* Rust indices are 0-based; a TLA+ sequence is 1-based, so element i of a *)
(* Vec is s[i + 1].                                                        *)
(***************************************************************************)
EXTENDS Integers, Sequences, FiniteSets, TLC

VARIABLES
    overflow_checks,     \* build profile: TRUE = debug (arithmetic overflow panics), FALSE = release (wraps)
    code,                \* Lexer.code: the program text
    position_in_code,    \* Lexer.position_in_code
    program,             \* Interpreter.program: the IR
    jump_map,            \* Interpreter.jump_map: a function on the recorded keys
    stack,               \* precompute_jumps' local stack as the pass left it
    instruction_pointer, \* Interpreter.instruction_pointer
    memory_pointer,      \* Interpreter.memory_pointer (usize, see USizeAdd)
    memory,              \* Interpreter.memory, kept as the function on its non-zero cells
    stdin,               \* the bytes standard input holds
    consumed,            \* how many of them have been read
    stdout,              \* the bytes written (and flushed) to standard output
    pc,                  \* "load", "resolve", "run", "done", "panic"
    panic_at,            \* which panic ended the run ("" while none has)
    ref,                 \* the reference loop semantics, run in lockstep with the engine
    unfolded,            \* a run executed one count-1 instruction at a time
    returned             \* the values a sequence of Lexer::next calls returned, in order

vars == <<overflow_checks, code, position_in_code, program, jump_map, stack,
          instruction_pointer, memory_pointer, memory, stdin, consumed, stdout,
          pc, panic_at, ref, unfolded, returned>>

-----------------------------------------------------------------------------
(* Bounds of the model *)

MaxLen == 3         \* program texts of up to MaxLen characters are enumerated
MaxInput == 1       \* standard input holds up to MaxInput bytes
MaxOut == 6         \* a run is followed until it has written MaxOut bytes
MaxSentinels == 2   \* a scanner is called MaxSentinels times more than its text has characters
MaxCells == 400     \* a run is followed while at most MaxCells cells are non-zero
CellMargin == 3     \* a folded run starts on a cell within CellMargin of 0 or of 255

(* Program constants *)

TOTAL_MEMORY_SIZE == 100000
U8_MAX == 255       \* the largest u8: operand and cell width
U8_MOD == 256

-----------------------------------------------------------------------------
(* Source Scanner *)

InstructionChars == {">", "<", "+", "-", ".", ",", "[", "]"}
EOF_CHAR == "@"
CommentChars == {"x", "@"}      \* two characters outside the instruction alphabet

\* a scanner that takes the sentinel character for an instruction
is_valid_instruction_WithSentinel(inst) == inst \in InstructionChars \cup {"@"}

is_valid_instruction(inst) == inst \in InstructionChars

\* lines 34-36: skip the characters that are not instructions
RECURSIVE SkipComments(_, _)
SkipComments(text, pos) ==
    IF pos < Len(text) /\ ~is_valid_instruction(text[pos + 1])
    THEN SkipComments(text, pos + 1)
    ELSE pos

\* a scanner that looks at the next instruction character without consuming it
LexerNext_PeekOnly(text, pos) ==
    LET p == SkipComments(text, pos)
    IN  IF p >= Len(text)
        THEN [ch |-> EOF_CHAR, pos |-> p]
        ELSE [ch |-> text[p + 1], pos |-> p]

\* Lexer::next: the character returned and the cursor afterwards
LexerNext(text, pos) ==
    LET p == SkipComments(text, pos)
    IN  IF p >= Len(text)
        THEN [ch |-> EOF_CHAR, pos |-> p]
        ELSE [ch |-> text[p + 1], pos |-> p + 1]

-----------------------------------------------------------------------------
(* IR Builder *)

KindOf(c) ==
    CASE c = ">" -> "IncrementPointer"
      [] c = "<" -> "DecrementPointer"
      [] c = "+" -> "IncrementByte"
      [] c = "-" -> "DecrementByte"
      [] c = "." -> "PrintByteAsChar"
      [] c = "," -> "ReadInputToByte"
      [] c = "[" -> "JumpIfZero"
      [] c = "]" -> "JumpIfNotZero"

FoldedKinds == {"IncrementPointer", "DecrementPointer", "IncrementByte", "DecrementByte"}

None == "None"
IRInstruction(k, op) == [kind |-> k, operand |-> op]

\* `streak += 1` on a u8: past 255 it panics with overflow checks and wraps without
StreakIncrement(streak, checks) ==
    IF streak + 1 > U8_MAX
    THEN IF checks THEN [panic |-> TRUE, val |-> streak]
                   ELSE [panic |-> FALSE, val |-> (streak + 1) % U8_MOD]
    ELSE [panic |-> FALSE, val |-> streak + 1]

\* lines 113-116: one test of `while c == s` and, if it holds, one pass of the body
\* `streak += 1; s = self.lexer.next();`.  st = [panic, s, pos, streak]
StreakIteration(text, c, st, checks) ==
    IF st.panic \/ c # st.s
    THEN st
    ELSE LET inc == StreakIncrement(st.streak, checks)
             nx  == LexerNext(text, st.pos)
         IN  IF inc.panic
             THEN [st EXCEPT !.panic = TRUE]
             ELSE [panic |-> FALSE, s |-> nx.ch, pos |-> nx.pos, streak |-> inc.val]

\* n iterations one after another (split in halves: TLC's stack is shallow)
RECURSIVE StreakIterations(_, _, _, _, _)
StreakIterations(text, c, st, n, checks) ==
    IF n = 0 THEN st
    ELSE IF n = 1 THEN StreakIteration(text, c, st, checks)
    ELSE LET half == StreakIterations(text, c, st, n \div 2, checks)
         IN  IF half.panic \/ c # half.s
             THEN half
             ELSE StreakIterations(text, c, half, n - (n \div 2), checks)

\* a builder that asks the scanner for a fresh character after a run, losing
\* the character that ended the run
StreakLoop_DropsEnd(text, c, s, pos, streak, checks) ==
    LET run == StreakIterations(text, c, [panic |-> FALSE, s |-> s, pos |-> pos,
                                          streak |-> streak], Len(text) + 1, checks)
        nx  == LexerNext(text, run.pos)
    IN  IF run.panic THEN run ELSE [run EXCEPT !.s = nx.ch, !.pos = nx.pos]

\* the whole loop: every pass consumes a character, so Len(text) + 1 tests end it
StreakLoop(text, c, s, pos, streak, checks) ==
    StreakIterations(text, c, [panic |-> FALSE, s |-> s, pos |-> pos, streak |-> streak],
                     Len(text) + 1, checks)

\* lines 100-135: the `while c != '@'` loop, one instruction pushed per iteration
\* (the scanner returns an instruction character or '@' only, so the arm
\* `_ => continue` of line 131 is never taken)
RECURSIVE LoadLoop(_, _, _, _, _)
LoadLoop(text, c, pos, prog, checks) ==
    IF c = EOF_CHAR
    THEN [panic |-> FALSE, program |-> prog, pos |-> pos]
    ELSE IF c \in {">", "<", "+", "-"}
    THEN LET first == LexerNext(text, pos)
             run   == StreakLoop(text, c, first.ch, first.pos, 1, checks)
         IN  IF run.panic
             THEN [panic |-> TRUE, program |-> prog, pos |-> run.pos]
             ELSE LoadLoop(text, run.s, run.pos,
                           Append(prog, IRInstruction(KindOf(c), run.streak)), checks)
    ELSE LET nx == LexerNext(text, pos)
         IN  LoadLoop(text, nx.ch, nx.pos, Append(prog, IRInstruction(KindOf(c), None)), checks)

\* Interpreter::load_program on a text already read from the file
load_program(text, checks) ==
    LET first == LexerNext(text, 0)
    IN  LoadLoop(text, first.ch, first.pos, <<>>, checks)

-----------------------------------------------------------------------------
(* Loop Resolver *)

Insert(map, key, value) ==
    [x \in (DOMAIN map) \cup {key} |-> IF x = key THEN value ELSE map[x]]

EmptyMap == [x \in {} |-> 0]

\* lines 143-157: the pass from index lip on; `stack.pop().unwrap()` panics on an empty stack
RECURSIVE ResolveLoop(_, _, _, _)
ResolveLoop(prog, lip, stk, map) ==
    IF lip < Len(prog)
    THEN LET inst == prog[lip + 1]
         IN  IF inst.kind = "JumpIfZero"
             THEN ResolveLoop(prog, lip + 1, Append(stk, lip), map)
             ELSE IF inst.kind = "JumpIfNotZero"
             THEN IF stk = <<>>
                  THEN [panic |-> TRUE, jump_map |-> map, stack |-> stk]
                  ELSE LET target == stk[Len(stk)]
                       IN  ResolveLoop(prog, lip + 1, SubSeq(stk, 1, Len(stk) - 1),
                                       Insert(Insert(map, lip, target), target, lip))
             ELSE ResolveLoop(prog, lip + 1, stk, map)
    ELSE [panic |-> FALSE, jump_map |-> map, stack |-> stk]

\* a pass that pairs a loop-close with the oldest open loop instead of the newest
RECURSIVE ResolveLoopOldestFirst(_, _, _, _)
ResolveLoopOldestFirst(prog, lip, stk, map) ==
    IF lip < Len(prog)
    THEN LET inst == prog[lip + 1]
         IN  IF inst.kind = "JumpIfZero"
             THEN ResolveLoopOldestFirst(prog, lip + 1, Append(stk, lip), map)
             ELSE IF inst.kind = "JumpIfNotZero"
             THEN IF stk = <<>>
                  THEN [panic |-> TRUE, jump_map |-> map, stack |-> stk]
                  ELSE LET target == stk[1]
                       IN  ResolveLoopOldestFirst(prog, lip + 1, Tail(stk),
                                                  Insert(Insert(map, lip, target), target, lip))
             ELSE ResolveLoopOldestFirst(prog, lip + 1, stk, map)
    ELSE [panic |-> FALSE, jump_map |-> map, stack |-> stk]

precompute_jumps_OldestFirst(prog) == ResolveLoopOldestFirst(prog, 0, <<>>, EmptyMap)

\* a pass that starts at the second instruction
precompute_jumps_FromSecond(prog) == ResolveLoop(prog, 1, <<>>, EmptyMap)

\* a pass that ignores a loop-close met on an empty stack
precompute_jumps_Lenient(prog) ==
    [ResolveLoop(prog, 0, <<>>, EmptyMap) EXCEPT !.panic = FALSE]

precompute_jumps(prog) == ResolveLoop(prog, 0, <<>>, EmptyMap)

-----------------------------------------------------------------------------
(* Execution Engine: arithmetic and the tape *)

(* A usize is 64 bits wide.  Its values are kept in two's-complement form: a    *)
(* negative r stands for 2^64 + r, so the values stay near 0 and the operand    *)
(* (at most 255) decides overflow exactly.                                       *)
USizeAdd(p, n, checks) ==
    IF p < 0 /\ p + n >= 0
    THEN [panic |-> checks, val |-> p + n]
    ELSE [panic |-> FALSE, val |-> p + n]

USizeSub(p, n, checks) ==
    IF p >= 0 /\ p < n
    THEN [panic |-> checks, val |-> p - n]
    ELSE [panic |-> FALSE, val |-> p - n]

U8Add(v, n, checks) ==
    IF v + n > U8_MAX
    THEN [panic |-> checks, val |-> (v + n) % U8_MOD]
    ELSE [panic |-> FALSE, val |-> v + n]

U8Sub(v, n, checks) ==
    IF v < n
    THEN [panic |-> checks, val |-> (v - n + U8_MOD) % U8_MOD]
    ELSE [panic |-> FALSE, val |-> v - n]

\* a bounds check that only looks at the upper end of the tape
InBounds_NoLower(p) == p < TOTAL_MEMORY_SIZE

\* the bounds check of `self.memory[self.memory_pointer]`
InBounds(p) == 0 <= p /\ p < TOTAL_MEMORY_SIZE

\* [u8; TOTAL_MEMORY_SIZE], all zero at creation, held as the function on its non-zero cells
ZeroMemory == [x \in {} |-> 0]
Cell(mem, p) == IF p \in DOMAIN mem THEN mem[p] ELSE 0
\* a store that forgets every cell but the one written
Store_Forgetful(mem, p, v) == IF v = 0 THEN ZeroMemory ELSE [x \in {p} |-> v]
Store(mem, p, v) ==
    IF v = 0
    THEN [x \in (DOMAIN mem) \ {p} |-> mem[x]]
    ELSE [x \in (DOMAIN mem) \cup {p} |-> IF x = p THEN v ELSE mem[x]]

\* `byte as char` printed with print!: the character U+0000..U+00FF in UTF-8
Utf8(v) == IF v < 128 THEN <<v>> ELSE <<192 + (v \div 64), 128 + (v % 64)>>

-----------------------------------------------------------------------------
(* Execution Engine: one iteration of the loop of interpret (lines 163-194) *)

(* A machine is the part of the state an iteration reads and writes:            *)
(* [ip, ptr, mem, consumed, out, status, panic_at], status "run" or "panic".    *)
Panic(m, why) == [m EXCEPT !.status = "panic", !.panic_at = why]

IsJump(inst) == inst.kind \in {"JumpIfZero", "JumpIfNotZero"}

\* lines 167-168
MovePointer(inst, m, checks) ==
    LET r == IF inst.kind = "IncrementPointer"
             THEN USizeAdd(m.ptr, inst.operand, checks)
             ELSE USizeSub(m.ptr, inst.operand, checks)
    IN  IF r.panic THEN Panic(m, "pointer_overflow") ELSE [m EXCEPT !.ptr = r.val]

\* an engine that applies a folded cell instruction once, whatever its count
ChangeByte_CountIgnored(inst, m, checks) ==
    LET r == IF inst.kind = "IncrementByte"
             THEN U8Add(Cell(m.mem, m.ptr), 1, checks)
             ELSE U8Sub(Cell(m.mem, m.ptr), 1, checks)
    IN  IF ~InBounds(m.ptr) THEN Panic(m, "out_of_bounds")
        ELSE IF r.panic THEN Panic(m, "cell_overflow")
        ELSE [m EXCEPT !.mem = Store(m.mem, m.ptr, r.val)]

\* lines 169-170: the index is checked, then the u8 arithmetic
ChangeByte(inst, m, checks) ==
    LET r == IF inst.kind = "IncrementByte"
             THEN U8Add(Cell(m.mem, m.ptr), inst.operand, checks)
             ELSE U8Sub(Cell(m.mem, m.ptr), inst.operand, checks)
    IN  IF ~InBounds(m.ptr) THEN Panic(m, "out_of_bounds")
        ELSE IF r.panic THEN Panic(m, "cell_overflow")
        ELSE [m EXCEPT !.mem = Store(m.mem, m.ptr, r.val)]

\* an engine that keeps what it prints in a buffer
PrintByte_Buffered(m) ==
    IF ~InBounds(m.ptr) THEN Panic(m, "out_of_bounds") ELSE m

\* lines 171-175: the cell is read, printed as a char and flushed
PrintByte(m) ==
    IF ~InBounds(m.ptr) THEN Panic(m, "out_of_bounds")
    ELSE [m EXCEPT !.out = m.out \o Utf8(Cell(m.mem, m.ptr))]

\* lines 176-180: read_exact takes one byte or fails; then the cell is indexed
ReadByte(m, input) ==
    IF m.consumed >= Len(input) THEN Panic(m, "stdin_exhausted")
    ELSE IF ~InBounds(m.ptr) THEN Panic([m EXCEPT !.consumed = m.consumed + 1], "out_of_bounds")
    ELSE [m EXCEPT !.consumed = m.consumed + 1,
                   !.mem = Store(m.mem, m.ptr, input[m.consumed + 1])]

JumpTaken(inst, m) ==
    \/ inst.kind = "JumpIfZero" /\ Cell(m.mem, m.ptr) = 0
    \/ inst.kind = "JumpIfNotZero" /\ Cell(m.mem, m.ptr) # 0

\* an engine that falls through a jump whose target is missing from the map
Jump_MissingFallsThrough(inst, m, map) ==
    IF ~InBounds(m.ptr) THEN Panic(m, "out_of_bounds")
    ELSE IF JumpTaken(inst, m) /\ m.ip \in DOMAIN map THEN [m EXCEPT !.ip = map[m.ip]]
    ELSE m

\* an engine whose loop-open never skips the loop
Jump_NeverSkips(inst, m, map) ==
    IF ~InBounds(m.ptr) THEN Panic(m, "out_of_bounds")
    ELSE IF inst.kind = "JumpIfNotZero" /\ Cell(m.mem, m.ptr) # 0
    THEN IF m.ip \in DOMAIN map THEN [m EXCEPT !.ip = map[m.ip]]
                                ELSE Panic(m, "jump_missing")
    ELSE m

\* an engine whose taken jump lands one past its partner before the increment
Jump_PastTarget(inst, m, map) ==
    IF ~InBounds(m.ptr) THEN Panic(m, "out_of_bounds")
    ELSE IF JumpTaken(inst, m)
    THEN IF m.ip \in DOMAIN map THEN [m EXCEPT !.ip = map[m.ip] + 1]
                                ELSE Panic(m, "jump_missing")
    ELSE m

\* lines 181-190: `*self.jump_map.get(..).unwrap()` panics on a missing key
Jump(inst, m, map) ==
    IF ~InBounds(m.ptr) THEN Panic(m, "out_of_bounds")
    ELSE IF JumpTaken(inst, m)
    THEN IF m.ip \in DOMAIN map THEN [m EXCEPT !.ip = map[m.ip]]
                                ELSE Panic(m, "jump_missing")
    ELSE m

\* an engine that never moves the cursor on
AdvanceCursor_Stalls(m) == m

\* an engine that steps over the instruction after the one executed
AdvanceCursor_SkipsNext(m) == [m EXCEPT !.ip = m.ip + 2]

\* line 193
AdvanceCursor(m) == [m EXCEPT !.ip = m.ip + 1]

\* lines 167-180: the six kinds that are no jumps
ExecData(inst, m, input, checks) ==
    CASE inst.kind \in {"IncrementPointer", "DecrementPointer"} -> MovePointer(inst, m, checks)
      [] inst.kind \in {"IncrementByte", "DecrementByte"} -> ChangeByte(inst, m, checks)
      [] inst.kind = "PrintByteAsChar" -> PrintByte(m)
      [] inst.kind = "ReadInputToByte" -> ReadByte(m, input)

\* lines 164-193: the instruction's effect, then `instruction_pointer += 1`
ExecInstruction(inst, m, map, input, checks) ==
    LET e == IF IsJump(inst) THEN Jump(inst, m, map) ELSE ExecData(inst, m, input, checks)
    IN  IF e.status = "panic" THEN e ELSE AdvanceCursor(e)

\* Interpreter::new (lines 78-87) as a machine
NewMachine == [ip |-> 0, ptr |-> 0, mem |-> ZeroMemory, consumed |-> 0, out |-> <<>>,
               status |-> "run", panic_at |-> ""]

Machine == [ip |-> instruction_pointer, ptr |-> memory_pointer, mem |-> memory,
            consumed |-> consumed, out |-> stdout,
            status |-> IF pc = "panic" THEN "panic" ELSE "run", panic_at |-> panic_at]

-----------------------------------------------------------------------------
(* Reference loop semantics: the matching bracket is found by counting depth,   *)
(* a taken jump lands on it, and the bracket landed on tests the cell again.    *)

RECURSIVE ScanForward(_, _, _)
ScanForward(prog, i, depth) ==
    IF i >= Len(prog) THEN -1
    ELSE IF prog[i + 1].kind = "JumpIfZero" THEN ScanForward(prog, i + 1, depth + 1)
    ELSE IF prog[i + 1].kind = "JumpIfNotZero"
         THEN IF depth = 1 THEN i ELSE ScanForward(prog, i + 1, depth - 1)
    ELSE ScanForward(prog, i + 1, depth)

RECURSIVE ScanBackward(_, _, _)
ScanBackward(prog, i, depth) ==
    IF i < 0 THEN -1
    ELSE IF prog[i + 1].kind = "JumpIfNotZero" THEN ScanBackward(prog, i - 1, depth + 1)
    ELSE IF prog[i + 1].kind = "JumpIfZero"
         THEN IF depth = 1 THEN i ELSE ScanBackward(prog, i - 1, depth - 1)
    ELSE ScanBackward(prog, i - 1, depth)

MatchingBracket(prog, i) ==
    IF prog[i + 1].kind = "JumpIfZero" THEN ScanForward(prog, i + 1, 1)
                                       ELSE ScanBackward(prog, i - 1, 1)

\* the nesting depth after each prefix, -1 once a loop-close had no loop-open before it
RECURSIVE DepthAfter(_, _)
DepthAfter(prog, n) ==
    IF n = 0 THEN 0
    ELSE LET d == DepthAfter(prog, n - 1)
         IN  IF d < 0 THEN -1
             ELSE IF prog[n].kind = "JumpIfZero" THEN d + 1
             ELSE IF prog[n].kind = "JumpIfNotZero" THEN d - 1
             ELSE d

HasUnmatchedClose(prog) == DepthAfter(prog, Len(prog)) < 0
Balanced(prog) == DepthAfter(prog, Len(prog)) = 0

RefStep1(prog, m, input, checks) ==
    LET inst == prog[m.ip + 1]
    IN  IF IsJump(inst)
        THEN IF ~InBounds(m.ptr) THEN Panic(m, "out_of_bounds")
             ELSE IF JumpTaken(inst, m) THEN [m EXCEPT !.ip = MatchingBracket(prog, m.ip)]
             ELSE [m EXCEPT !.ip = m.ip + 1]
        ELSE LET e == ExecData(inst, m, input, checks)
             IN  IF e.status = "panic" THEN e ELSE [e EXCEPT !.ip = e.ip + 1]

\* the reference steps that correspond to one iteration of the engine
RefStep(prog, m, input, checks) ==
    LET inst == prog[m.ip + 1]
        a    == RefStep1(prog, m, input, checks)
    IN  IF IsJump(inst) /\ a.status = "run" /\ JumpTaken(inst, m) /\ a.ip < Len(prog)
        THEN RefStep1(prog, a, input, checks)
        ELSE a

RefOff == [NewMachine EXCEPT !.status = "off"]

-----------------------------------------------------------------------------
(* The inputs: program texts and standard input *)

Alphabet == InstructionChars \cup CommentChars
Texts(n) == UNION {[1..k -> Alphabet] : k \in 0..n}
Rep(c, k) == [i \in 1..k |-> c]

\* spec scenario 2: prints the character with code 64
Scenario2 == Rep("+", 8) \o <<"[", ">">> \o Rep("+", 8) \o <<"<", "-", "]", ">", ".">>
\* two nested loops: prints the character with code 4
NestedLoops == <<"+", "+", "[", ">", "+", "+", "[", ">", "+", "<", "-", "]", "<", "-", "]", ">", ">", ".">>
\* echoes its input up to a zero byte
Echo == <<",", "[", ".", ",", "]">>
\* walks the pointer right in steps of 255 until it leaves the tape
FarWalk == <<"+", "[">> \o Rep(">", U8_MAX) \o <<"+", "]">>
\* runs at and beyond the width of the repeat count
LongRunLengths == {255, 256, 257, 300, 511, 512}
LongRuns == {Rep(c, n) : c \in {"+", ">"}, n \in LongRunLengths}

\* a short loop that runs three times
CountDown == <<"+", "+", "+", "[", "-", "]">>
\* a run of three interrupted by the sentinel character and a comment
CommentedRun == <<"+", "@", "+", "x", "+", ".">>
\* prints and reads in turn
PrintRead == <<".", ",", ".", ",", ".">>
\* a loop-close without a loop-open, after a print and a read
StrayClose == <<".", ",", "+", "]">>
Examples == {Scenario2, NestedLoops, Echo, FarWalk, CountDown, CommentedRun, PrintRead,
             StrayClose}

ProgramTexts == Texts(MaxLen) \cup Examples \cup LongRuns

InputBytes == {0, 65, 200}
Inputs == UNION {[1..k -> InputBytes] : k \in 0..MaxInput}
Reads(text) == \E i \in 1..Len(text) : text[i] = ","

-----------------------------------------------------------------------------
(* The pipeline of main (src/src/main.rs lines 15-19) *)

\* Interpreter::new; a text that holds no ',' never touches standard input
Init ==
    /\ overflow_checks \in BOOLEAN
    /\ code \in ProgramTexts
    /\ stdin \in (IF Reads(code) THEN Inputs ELSE {<<>>})
    /\ position_in_code = 0
    /\ program = <<>>
    /\ jump_map = EmptyMap
    /\ stack = <<>>
    /\ instruction_pointer = 0
    /\ memory_pointer = 0
    /\ memory = ZeroMemory
    /\ consumed = 0
    /\ stdout = <<>>
    /\ pc = "load"
    /\ panic_at = ""
    /\ ref = RefOff
    /\ unfolded = RefOff
    /\ returned = <<>>

\* my_interpreter.load_program(program_path)
LoadProgram ==
    /\ pc = "load"
    /\ LET r == load_program(code, overflow_checks)
       IN  /\ program' = r.program
           /\ position_in_code' = r.pos
           /\ pc' = IF r.panic THEN "panic" ELSE "resolve"
           /\ panic_at' = IF r.panic THEN "streak_overflow" ELSE ""
    /\ UNCHANGED <<overflow_checks, code, jump_map, stack, instruction_pointer,
                   memory_pointer, memory, stdin, consumed, stdout, ref, unfolded, returned>>

\* interpret, line 161: self.precompute_jumps()
Resolve ==
    /\ pc = "resolve"
    /\ LET r == precompute_jumps(program)
       IN  /\ jump_map' = r.jump_map
           /\ stack' = r.stack
           /\ pc' = IF r.panic THEN "panic" ELSE "run"
           /\ panic_at' = IF r.panic THEN "unmatched_close" ELSE ""
    /\ ref' = IF Balanced(program) THEN NewMachine ELSE RefOff
    /\ UNCHANGED <<overflow_checks, code, position_in_code, program, instruction_pointer,
                   memory_pointer, memory, stdin, consumed, stdout, unfolded, returned>>

\* interpret, lines 163-193: one iteration of the loop
Step ==
    /\ pc = "run"
    /\ instruction_pointer < Len(program)
    /\ Len(stdout) < MaxOut
    /\ Cardinality(DOMAIN memory) <= MaxCells
    /\ LET m == ExecInstruction(program[instruction_pointer + 1], Machine, jump_map,
                                stdin, overflow_checks)
       IN  /\ instruction_pointer' = m.ip
           /\ memory_pointer' = m.ptr
           /\ memory' = m.mem
           /\ consumed' = m.consumed
           /\ stdout' = m.out
           /\ pc' = m.status
           /\ panic_at' = m.panic_at
    /\ ref' = IF ref.status = "run" /\ ref.ip >= 0 /\ ref.ip < Len(program)
              THEN RefStep(program, ref, stdin, overflow_checks)
              ELSE ref
    /\ UNCHANGED <<overflow_checks, code, position_in_code, program, jump_map, stack,
                   stdin, unfolded, returned>>

\* interpret, line 163: the loop condition fails and interpret returns
Finish ==
    /\ pc = "run"
    /\ instruction_pointer >= Len(program)
    /\ pc' = "done"
    /\ UNCHANGED <<overflow_checks, code, position_in_code, program, jump_map, stack,
                   instruction_pointer, memory_pointer, memory, stdin, consumed, stdout,
                   panic_at, ref, unfolded, returned>>

Next == LoadProgram \/ Resolve \/ Step \/ Finish

Spec == Init /\ [][Next]_vars

\* main runs load_program and interpret to the end without waiting on anything
\* but its input, which is all there from the start: a step that can be taken
\* is taken. LoadProgram is enabled exactly when pc = "load" and always leaves
\* that position, so its weak fairness is written as []<>(pc # "load").
SpecLive ==
    /\ Init /\ [][Next]_vars
    /\ []<>(pc # "load")
    /\ WF_vars(Resolve) /\ WF_vars(Step) /\ WF_vars(Finish)

-----------------------------------------------------------------------------
(* One folded instruction against the same run executed one by one *)

\* n instructions of count 1 executed one after another (split in halves)
RECURSIVE RunSingles(_, _, _, _)
RunSingles(kind, n, m, checks) ==
    IF n = 0 \/ m.status = "panic" THEN m
    ELSE IF n = 1 THEN ExecInstruction(IRInstruction(kind, 1), m, EmptyMap, <<>>, checks)
    ELSE LET half == RunSingles(kind, n \div 2, m, checks)
         IN  IF half.status = "panic"
             THEN half
             ELSE RunSingles(kind, n - (n \div 2), half, checks)

\* pointers a run may start from; the negative ones (2^64 + p) are those a
\* wrapped move-pointer-backward leaves, which only a build without overflow
\* checks reaches
StartPointers(checks) ==
    {0, 1, 254, 255, 256, TOTAL_MEMORY_SIZE - 1, TOTAL_MEMORY_SIZE}
    \cup (IF checks THEN {} ELSE {-1, -255, -256})
\* cell values a run may start from: those next to either end of the byte
\* range and the two in the middle
StartCells == (0..CellMargin) \cup ((U8_MAX - CellMargin)..U8_MAX) \cup {127, 128}

\* the program is one run of k <= 255 characters, loaded; the pointer and the
\* cell under it are what an earlier part of a program may have left
FoldInit ==
    /\ overflow_checks \in BOOLEAN
    /\ \E c \in {">", "<", "+", "-"}, k \in 1..U8_MAX : code = Rep(c, k)
    /\ program = load_program(code, overflow_checks).program
    /\ position_in_code = Len(code)
    /\ \/ /\ code[1] \in {">", "<"}
          /\ memory_pointer \in StartPointers(overflow_checks)
          /\ memory = ZeroMemory
       \/ /\ code[1] \in {"+", "-"}
          /\ memory_pointer = 0
          /\ \E v \in StartCells : memory = Store(ZeroMemory, 0, v)
       \/ /\ code[1] \in {"+", "-"}
          /\ memory_pointer \in {TOTAL_MEMORY_SIZE} \cup (IF overflow_checks THEN {} ELSE {-1})
          /\ memory = ZeroMemory
    /\ jump_map = EmptyMap
    /\ stack = <<>>
    /\ instruction_pointer = 0
    /\ stdin = <<>>
    /\ consumed = 0
    /\ stdout = <<>>
    /\ pc = "run"
    /\ panic_at = ""
    /\ ref = RefOff
    /\ unfolded = RefOff
    /\ returned = <<>>

\* the engine executes the folded instruction; the same run is executed as
\* Len(code) instructions of count 1 from the same state
FoldedStep ==
    /\ pc = "run"
    /\ instruction_pointer < Len(program)
    /\ LET m == ExecInstruction(program[instruction_pointer + 1], Machine, jump_map,
                                stdin, overflow_checks)
       IN  /\ instruction_pointer' = m.ip
           /\ memory_pointer' = m.ptr
           /\ memory' = m.mem
           /\ consumed' = m.consumed
           /\ stdout' = m.out
           /\ pc' = m.status
           /\ panic_at' = m.panic_at
    /\ unfolded' = RunSingles(KindOf(code[1]), Len(code), Machine, overflow_checks)
    /\ UNCHANGED <<overflow_checks, code, position_in_code, program, jump_map, stack,
                   stdin, ref, returned>>

FoldNext == FoldedStep \/ Finish

SpecFold == FoldInit /\ [][FoldNext]_vars

-----------------------------------------------------------------------------
(* The scanner by itself: a filled Lexer and a sequence of next() calls *)

\* Lexer::new and fill
LexInit ==
    /\ Init
    /\ overflow_checks
    /\ stdin = <<>>

\* one call of Lexer::next
LexerCall ==
    /\ pc = "load"
    /\ Len(returned) < Len(code) + MaxSentinels
    /\ LET r == LexerNext(code, position_in_code)
       IN  /\ position_in_code' = r.pos
           /\ returned' = Append(returned, r.ch)
    /\ UNCHANGED <<overflow_checks, code, program, jump_map, stack, instruction_pointer,
                   memory_pointer, memory, stdin, consumed, stdout, pc, panic_at, ref,
                   unfolded>>

LexNext == LexerCall

SpecLexer == LexInit /\ [][LexNext]_vars

-----------------------------------------------------------------------------
(* Properties *)

Loaded == pc # "load" /\ panic_at # "streak_overflow"
Resolved == Loaded /\ pc # "resolve" /\ panic_at # "unmatched_close"
Strip(text) == SelectSeq(text, LAMBDA ch : ch \in InstructionChars)

\* C1: a text and the text with every non-instruction character removed (the
\* '@' of the sentinel included) load to the same IR program, and fail to load
\* in the same cases; everything after the load reads the IR program only.
CommentTransparency ==
    pc # "load" =>
        LET bare == load_program(Strip(code), overflow_checks)
        IN  /\ program = bare.program
            /\ bare.panic = (panic_at = "streak_overflow")

CommentTransparencyWitness ==
    /\ code = CommentedRun
    /\ program = <<IRInstruction("IncrementByte", 3), IRInstruction("PrintByteAsChar", None)>>
    /\ pc = "done"
    /\ stdout = <<3>>

\* C3: on a bracket-balanced program the engine (a taken jump goes to the
\* matching bracket, then the cursor is incremented) is at every step in the
\* state of the reference semantics (a taken jump lands on the matching
\* bracket, which tests the cell again): same cursor, pointer, tape, input
\* position, output and failure.
LoopIterationCorrect ==
    (Resolved /\ Balanced(program)) =>
        /\ ref.status # "off"
        /\ ref.ip = instruction_pointer
        /\ ref.ptr = memory_pointer
        /\ ref.mem = memory
        /\ ref.consumed = consumed
        /\ ref.out = stdout
        /\ (ref.status = "panic") = (pc = "panic")
        /\ ref.panic_at = panic_at

LoopIterationWitness ==
    /\ code = Scenario2
    /\ pc = "done"
    /\ stdout = <<64>>
    /\ ref.out = <<64>>
    /\ memory = (1 :> 64)

\* C5: a program with a loop-close that no earlier loop-open matches fails in
\* the resolve pass with nothing executed: no output, no input consumed, the
\* cursor, the pointer and the tape as they were created.
UnmatchedCloseRejected ==
    (Loaded /\ HasUnmatchedClose(program)) =>
        /\ pc \in {"resolve", "panic"}
        /\ pc = "panic" => panic_at = "unmatched_close"
        /\ instruction_pointer = 0
        /\ memory_pointer = 0
        /\ memory = ZeroMemory
        /\ stdout = <<>>
        /\ consumed = 0

UnmatchedCloseWitness ==
    /\ code = StrayClose
    /\ stdin = <<65>>
    /\ pc = "panic"
    /\ panic_at = "unmatched_close"
    /\ stdout = <<>>
    /\ consumed = 0

BracketIndices(prog) == {i \in 0..(Len(prog) - 1) : IsJump(prog[i + 1])}
LoopOpens(prog) == {i \in 0..(Len(prog) - 1) : prog[i + 1].kind = "JumpIfZero"}

\* C6: for a correctly nested program with N loop-opens and N loop-closes the
\* resolve pass does not fail, leaves its stack empty, and the jump map has
\* exactly the 2N bracket indices as keys, in N pairs i -> j, j -> i.
LoopBalance ==
    (Loaded /\ pc # "resolve" /\ Balanced(program)) =>
        /\ panic_at # "unmatched_close"
        /\ stack = <<>>
        /\ DOMAIN jump_map = BracketIndices(program)
        /\ Cardinality(DOMAIN jump_map) = 2 * Cardinality(LoopOpens(program))
        /\ \A i \in DOMAIN jump_map :
              /\ jump_map[i] \in DOMAIN jump_map
              /\ jump_map[i] # i
              /\ jump_map[jump_map[i]] = i

LoopBalanceWitness ==
    /\ code = NestedLoops
    /\ pc = "run"
    /\ instruction_pointer = 0
    /\ Cardinality(DOMAIN jump_map) = 4
    /\ jump_map[1] = 12 /\ jump_map[4] = 9

\* C7: in every state of a run that has not failed the pointer is inside the
\* tape; so a move that would leave [0, TOTAL_MEMORY_SIZE) fails at that step.
PointerBounds ==
    (Resolved /\ pc \in {"run", "done"}) => InBounds(memory_pointer)

IsLongRun(text) ==
    /\ Len(text) > U8_MAX
    /\ text[1] \in {">", "<", "+", "-"}
    /\ \A i \in 1..Len(text) : text[i] = text[1]

RECURSIVE OperandSum(_, _)
OperandSum(prog, n) == IF n = 0 THEN 0 ELSE OperandSum(prog, n - 1) + prog[n].operand

\* C8: every pointer/cell instruction built has a count of at least 1, and a
\* text that is one run of more than 255 characters fails to load, or loads
\* to one instruction of count 255, or to instructions whose counts sum to the
\* run length; never to a count that is the run length modulo 256.
RepeatCountPolicy ==
    pc # "load" =>
        /\ \A i \in 1..Len(program) :
              program[i].kind \in FoldedKinds => program[i].operand \in 1..U8_MAX
        /\ IsLongRun(code) =>
              \/ pc = "panic" /\ panic_at = "streak_overflow"
              \/ program = <<IRInstruction(KindOf(code[1]), U8_MAX)>>
              \/ /\ \A i \in 1..Len(program) : program[i].kind = KindOf(code[1])
                 /\ OperandSum(program, Len(program)) = Len(code)

AtInstruction(k) ==
    /\ pc = "run"
    /\ instruction_pointer < Len(program)
    /\ program[instruction_pointer + 1].kind = k

\* the value of the character a UTF-8 sequence of one or two bytes encodes
Utf8Decode(bytes) ==
    IF Len(bytes) = 1 THEN bytes[1] ELSE (bytes[1] - 192) * 64 + (bytes[2] - 128)
WellFormedUtf8(bytes) ==
    \/ Len(bytes) = 1 /\ bytes[1] \in 0..127
    \/ Len(bytes) = 2 /\ bytes[1] \in 194..195 /\ bytes[2] \in 128..191

Written == SubSeq(stdout', Len(stdout) + 1, Len(stdout'))

\* what a step of the engine does to the two streams, given what a print adds
IOStep(PrintAdds(_)) ==
    /\ Len(stdout') >= Len(stdout)
    /\ SubSeq(stdout', 1, Len(stdout)) = stdout
    /\ IF AtInstruction("PrintByteAsChar")
       THEN /\ consumed' = consumed
            /\ IF pc' = "panic" THEN Written = <<>>
                                ELSE PrintAdds(Cell(memory, memory_pointer))
       ELSE IF AtInstruction("ReadInputToByte")
       THEN /\ Written = <<>>
            /\ pc' # "panic" => /\ consumed' = consumed + 1
                                /\ Cell(memory', memory_pointer') = stdin[consumed + 1]
       ELSE Written = <<>> /\ consumed' = consumed

AddsByte(v) == Written = <<v>>
AddsChar(v) == WellFormedUtf8(Written) /\ Utf8Decode(Written) = v

\* C9 as stated: every step that executes a print appends the one byte
\* tape[pointer] to the output within that step and consumes no input, every
\* step that executes a read consumes the next input byte and writes nothing,
\* and no other step touches either stream.
IOOrderingBytes == [][IOStep(AddsByte)]_vars

\* C9 as amended: the same, a print appending the character with the code
\* tape[pointer] in UTF-8: the byte itself below 128, two bytes from 128 on.
IOOrdering == [][IOStep(AddsChar)]_vars

IOOrderingWitness ==
    /\ code = PrintRead
    /\ stdin = <<200>>
    /\ instruction_pointer = 3
    /\ consumed = 1
    /\ stdout = <<0, 195, 136>>
    /\ pc = "run"

\* C10: a read with all the input consumed fails at that step, the tape and
\* the output as they were, and nothing runs after a failure; any other read
\* stores the next unread byte into tape[pointer] and consumes that one byte.
ExhaustedInputFatal ==
    [][/\ pc # "panic"
       /\ AtInstruction("ReadInputToByte") =>
             IF consumed >= Len(stdin)
             THEN /\ pc' = "panic"
                  /\ memory' = memory /\ memory_pointer' = memory_pointer
                  /\ stdout' = stdout /\ consumed' = consumed
             ELSE /\ pc' = "run"
                  /\ consumed' = consumed + 1
                  /\ memory_pointer' = memory_pointer
                  /\ memory' = Store(memory, memory_pointer, stdin[consumed + 1])]_vars

\* C2: the folded instruction built from a run of k <= 255 characters and k
\* instructions of count 1 of that kind, executed from the same state, both
\* fail (in the same way) or both succeed and leave the same pointer and tape.
FoldingCorrect ==
    unfolded.status # "off" =>
        /\ (unfolded.status = "panic") = (pc = "panic")
        /\ unfolded.panic_at = panic_at
        /\ pc # "panic" => /\ unfolded.ptr = memory_pointer
                           /\ unfolded.mem = memory

FoldingWitness ==
    /\ code = Rep("+", U8_MAX)
    /\ program = <<IRInstruction("IncrementByte", U8_MAX)>>
    /\ ~overflow_checks
    /\ pc = "done"
    /\ instruction_pointer = 1
    /\ memory = (0 :> 2)
    /\ unfolded.ip = U8_MAX
    /\ unfolded.mem = (0 :> 2)

\* C4: increment-cell(n) on a cell holding v leaves (v + n) mod 256 in it and
\* decrement-cell(n) leaves (v - n) mod 256, and neither fails.
CellWraparound ==
    [][/\ (AtInstruction("IncrementByte") /\ InBounds(memory_pointer)) =>
             /\ pc' = "run"
             /\ Cell(memory', memory_pointer) =
                   (Cell(memory, memory_pointer) + program[instruction_pointer + 1].operand) % U8_MOD
       /\ (AtInstruction("DecrementByte") /\ InBounds(memory_pointer)) =>
             /\ pc' = "run"
             /\ Cell(memory', memory_pointer) =
                   (Cell(memory, memory_pointer) + U8_MOD
                       - program[instruction_pointer + 1].operand) % U8_MOD]_vars

\* C11: after the resolve pass of a balanced program the jump map is an
\* involution without fixed points, every pair has a jump-if-zero at its
\* smaller index and a jump-if-nonzero at its larger one, and the instructions
\* strictly between the two are bracket-balanced.
JumpMapMatching ==
    (Loaded /\ pc # "resolve" /\ Balanced(program)) =>
        \A i \in DOMAIN jump_map :
            LET j  == jump_map[i]
                lo == IF i < j THEN i ELSE j
                hi == IF i < j THEN j ELSE i
            IN  /\ j \in DOMAIN jump_map
                /\ jump_map[j] = i
                /\ i # j
                /\ program[lo + 1].kind = "JumpIfZero"
                /\ program[hi + 1].kind = "JumpIfNotZero"
                /\ Balanced(SubSeq(program, lo + 2, hi))

JumpMapMatchingWitness ==
    /\ code = NestedLoops
    /\ pc = "done"
    /\ stdout = <<4>>
    /\ DOMAIN jump_map = {1, 4, 9, 12}
    /\ jump_map[1] = 12 /\ jump_map[12] = 1
    /\ jump_map[4] = 9 /\ jump_map[9] = 4

\* C12: every step that does not fail ends with the cursor advanced by one: a
\* jump-if-zero taken on a zero cell and a jump-if-nonzero taken on a
\* non-zero cell resume at jump_map[cursor] + 1, every other step at cursor + 1.
CursorUpdate ==
    [][(pc = "run" /\ instruction_pointer < Len(program) /\ pc' = "run") =>
          LET inst == program[instruction_pointer + 1]
              v    == Cell(memory, memory_pointer)
          IN  IF \/ inst.kind = "JumpIfZero" /\ v = 0
                 \/ inst.kind = "JumpIfNotZero" /\ v # 0
              THEN instruction_pointer' = jump_map[instruction_pointer] + 1
              ELSE instruction_pointer' = instruction_pointer + 1]_vars

\* the loop-close of CountDown has just been taken with 2 in the cell
CursorUpdateWitness ==
    /\ code = CountDown
    /\ pc = "run"
    /\ instruction_pointer = 2
    /\ memory = (0 :> 2)

OnlyUnmatchedOpens(prog) == DepthAfter(prog, Len(prog)) > 0
UnmatchedOpens(prog) == {i \in LoopOpens(prog) : MatchingBracket(prog, i) = -1}

\* C13: for a program whose only bracket defect is unmatched loop-opens the
\* resolve pass does not fail and records no entry for an unmatched loop-open
\* (they are what its stack is left with); in the run an unmatched
\* jump-if-zero fails on a zero cell (the lookup in the jump map finds
\* nothing), falls through to the next instruction on a non-zero cell, and
\* that failure happens in no other step.
LazyUnmatchedOpen ==
    /\ [](Loaded /\ pc # "resolve" /\ OnlyUnmatchedOpens(program) =>
             /\ panic_at # "unmatched_close"
             /\ DOMAIN jump_map = BracketIndices(program) \ UnmatchedOpens(program)
             /\ {stack[n] : n \in 1..Len(stack)} = UnmatchedOpens(program)
             /\ UnmatchedOpens(program) # {})
    /\ [][LET unmatched == /\ AtInstruction("JumpIfZero")
                           /\ instruction_pointer \in UnmatchedOpens(program)
                           /\ InBounds(memory_pointer)
              zero == Cell(memory, memory_pointer) = 0
          IN  /\ unmatched /\ zero =>
                    /\ pc' = "panic" /\ panic_at' = "jump_missing"
                    /\ memory' = memory /\ stdout' = stdout
              /\ unmatched /\ ~zero =>
                    /\ pc' = "run"
                    /\ instruction_pointer' = instruction_pointer + 1
              /\ (panic_at # "jump_missing" /\ panic_at' = "jump_missing") =>
                    unmatched /\ zero]_vars

\* `+[` has run to its end
LazyUnmatchedOpenWitness ==
    /\ code = <<"+", "[">>
    /\ pc = "done"
    /\ instruction_pointer = 2
    /\ jump_map = EmptyMap
    /\ stack = <<1>>
    /\ memory = (0 :> 1)

CharOf(kind) == CHOOSE c \in InstructionChars : KindOf(c) = kind

\* the text an IR program stands for: a counted instruction as that many characters
RECURSIVE Expand(_, _)
Expand(prog, n) ==
    IF n = 0 THEN <<>>
    ELSE Expand(prog, n - 1) \o
         (IF prog[n].kind \in FoldedKinds THEN Rep(CharOf(prog[n].kind), prog[n].operand)
                                         ELSE <<CharOf(prog[n].kind)>>)

\* a run of more than 255 equal pointer/cell characters
HasLongRun(text) ==
    \E i \in 1..(Len(text) - U8_MAX) :
        /\ text[i] \in {">", "<", "+", "-"}
        /\ \A j \in i..(i + U8_MAX) : text[j] = text[i]

\* C14: for a text whose runs are at most 255 long the load does not fail, the
\* IR program expanded is the text without its non-instruction characters
\* (nothing lost, the character ending a run included, and nothing twice),
\* and no two neighbouring instructions have the same pointer/cell kind.
IRConstruction ==
    (pc # "load" /\ ~HasLongRun(Strip(code))) =>
        /\ panic_at # "streak_overflow"
        /\ Expand(program, Len(program)) = Strip(code)
        /\ \A i \in 1..Len(program) :
              program[i].kind \in FoldedKinds => program[i].operand \in 1..U8_MAX
        /\ \A i \in 1..(Len(program) - 1) :
              program[i].kind \in FoldedKinds => program[i + 1].kind # program[i].kind

IRConstructionWitness ==
    /\ code = Scenario2
    /\ pc = "resolve"
    /\ Len(program) = 9
    /\ program[1] = IRInstruction("IncrementByte", 8)
    /\ program[2] = IRInstruction("JumpIfZero", None)
    /\ program[6] = IRInstruction("DecrementByte", 1)

\* the part of the state the engine works on
engine == <<instruction_pointer, memory_pointer, memory, consumed, stdout>>

\* C15: execution starts with cursor 0, pointer 0 and an all-zero tape; for a
\* resolved balanced program the cursor stays in 0..Len(program); an
\* instruction is executed only at a cursor below Len(program); and the run
\* ends normally exactly when the cursor equals Len(program).
CursorRange ==
    /\ [](pc \in {"load", "resolve"} =>
            instruction_pointer = 0 /\ memory_pointer = 0 /\ memory = ZeroMemory)
    /\ []((Resolved /\ Balanced(program)) =>
            instruction_pointer \in 0..Len(program))
    /\ []((pc = "done" /\ Balanced(program)) => instruction_pointer = Len(program))
    /\ [][(pc = "resolve" /\ pc' = "run") => engine' = <<0, 0, ZeroMemory, 0, <<>> >>]_vars
    /\ [][(pc = "run" /\ Balanced(program)) =>
            /\ (engine' # engine \/ pc' = "panic") => instruction_pointer < Len(program)
            /\ pc' = "done" <=> instruction_pointer = Len(program)]_vars

CursorRangeWitness ==
    /\ code = <<"[", "+", "]">>
    /\ pc = "done"
    /\ instruction_pointer = 3
    /\ memory = ZeroMemory
    /\ jump_map = Insert(Insert(EmptyMap, 0, 2), 2, 0)

LoopFree(text) == \A i \in 1..Len(text) : text[i] \notin {"[", "]"}
ReadCount(text) == Cardinality({i \in 1..Len(text) : text[i] = ","})

\* C16: a program without loop instructions never fails for want of input when
\* the input holds a byte for each of its reads; every step that is no fatal
\* error moves the cursor on by exactly 1 (so the cursor counts the steps);
\* and the run eventually ends, in a fatal error or at cursor = Len(program),
\* that is after exactly Len(program) steps.
LoopFreeTermination ==
    /\ []((LoopFree(code) /\ ReadCount(code) <= Len(stdin)) => panic_at # "stdin_exhausted")
    /\ []((LoopFree(code) /\ pc = "run") => panic_at = "")
    /\ [][(LoopFree(code) /\ pc = "run" /\ pc' = "run") =>
            /\ instruction_pointer < Len(program)
            /\ instruction_pointer' = instruction_pointer + 1]_vars
    /\ [][(LoopFree(code) /\ pc = "run" /\ pc' = "done") =>
            /\ instruction_pointer = Len(program)
            /\ instruction_pointer' = instruction_pointer]_vars
    /\ <>(LoopFree(code) =>
            (pc = "panic" \/ (pc = "done" /\ instruction_pointer = Len(program))))

LoopFreeTerminationWitness ==
    /\ code = <<",", "+", ".">>
    /\ stdin = <<65>>
    /\ pc = "done"
    /\ instruction_pointer = 3
    /\ consumed = 1
    /\ stdout = <<66>>

MoveKinds == {"IncrementPointer", "DecrementPointer"}
CellKinds == {"IncrementByte", "DecrementByte", "ReadInputToByte"}
TestKinds == {"PrintByteAsChar", "JumpIfZero", "JumpIfNotZero"}
Fetching == pc = "run" /\ instruction_pointer < Len(program)
Fetched == program[instruction_pointer + 1].kind
OtherCellsKept ==
    \A p \in ((DOMAIN memory) \cup (DOMAIN memory')) \ {memory_pointer} :
        Cell(memory', p) = Cell(memory, p)

\* C17: during execution the program and the jump map never change; a move
\* leaves the tape as it is; an increment, decrement or read leaves the
\* pointer and every cell but tape[pointer] as they are; a print or a jump
\* leaves pointer and tape as they are; the output changes only in a print
\* step, and then by being extended, and input is consumed only in a read step.
StepFrame ==
    /\ [][pc = "run" => (program' = program /\ jump_map' = jump_map /\ stack' = stack)]_vars
    /\ [][(Fetching /\ Fetched \in MoveKinds) => memory' = memory]_vars
    /\ [][(Fetching /\ Fetched \in CellKinds) =>
            (memory_pointer' = memory_pointer /\ OtherCellsKept)]_vars
    /\ [][(Fetching /\ Fetched \in TestKinds) =>
            (memory_pointer' = memory_pointer /\ memory' = memory)]_vars
    /\ [][(pc = "run" /\ stdout' # stdout) =>
            /\ Fetching /\ Fetched = "PrintByteAsChar"
            /\ Len(stdout') > Len(stdout)
            /\ SubSeq(stdout', 1, Len(stdout)) = stdout]_vars
    /\ [][(pc = "run" /\ consumed' # consumed) =>
            (Fetching /\ Fetched = "ReadInputToByte" /\ consumed' = consumed + 1)]_vars
    /\ [][pc = "run" => stdin' = stdin]_vars

StepFrameWitness ==
    /\ code = <<"+", ">", "+">>
    /\ pc = "done"
    /\ memory_pointer = 1
    /\ memory = (0 :> 1) @@ (1 :> 1)
    /\ stdout = <<>>
    /\ consumed = 0

OnTape(p) == p \in 0..(TOTAL_MEMORY_SIZE - 1)

\* C18: a step of any kind but a pointer move taken with the pointer off the
\* tape ends the run in a fatal error there, the tape and the output left as
\* they were; and no cell off the tape ever holds a value.
NoSilentAccess ==
    /\ [][(Fetching /\ Fetched \notin MoveKinds /\ ~OnTape(memory_pointer)) =>
            /\ pc' = "panic"
            /\ panic_at' \in {"out_of_bounds", "stdin_exhausted"}
            /\ instruction_pointer' = instruction_pointer
            /\ memory' = memory
            /\ stdout' = stdout]_vars
    /\ [](\A p \in DOMAIN memory : OnTape(p))

NoSilentAccessWitness ==
    /\ code = <<"+", "<", "+">>
    /\ ~overflow_checks
    /\ pc = "panic"
    /\ panic_at = "out_of_bounds"
    /\ memory_pointer = -1
    /\ instruction_pointer = 2
    /\ memory = (0 :> 1)

InstructionsOf(seq) == SelectSeq(seq, LAMBDA ch : ch # EOF_CHAR)
NoneRemains(text, pos) == \A i \in (pos + 1)..Len(text) : text[i] \notin InstructionChars

\* C19: over a sequence of next() calls the scanner cursor never decreases
\* and stays within 0..Len(code); every value returned is an instruction
\* character or the sentinel '@', which is none; the instruction characters
\* returned are exactly those of the text before the cursor, in order; the
\* sentinel is returned exactly when no instruction character is left at or
\* after the cursor; and after a sentinel only sentinels are returned.
ScannerContract ==
    /\ [][position_in_code' >= position_in_code]_vars
    /\ [](position_in_code \in 0..Len(code))
    /\ [](EOF_CHAR \notin InstructionChars)
    /\ [](\A i \in 1..Len(returned) : returned[i] \in InstructionChars \cup {EOF_CHAR})
    /\ [](InstructionsOf(returned) = Strip(SubSeq(code, 1, position_in_code)))
    /\ [][returned' # returned =>
            /\ Len(returned') = Len(returned) + 1
            /\ SubSeq(returned', 1, Len(returned)) = returned
            /\ (returned'[Len(returned')] = EOF_CHAR) <=> NoneRemains(code, position_in_code)]_vars
    /\ [](\A i \in 1..Len(returned) : \A j \in i..Len(returned) :
            returned[i] = EOF_CHAR => returned[j] = EOF_CHAR)

ScannerContractWitness ==
    /\ code = <<"x", "+", "@">>
    /\ position_in_code = 3
    /\ returned = <<"+", "@", "@">>

====
